---- MODULE Spec2Model ----
(***************************************************************************)
(* Page alignment engine of the PDF comparison script: the text cost       *)
(* (normalizeText / tokenSet / jaccardCost), the combined pair cost, the   *)
(* parameters derived from the matchWindow slider, buildAlignmentDP        *)
(* (tolerance-0 fast path, seeding, DP fill, backtrace), and the runs of   *)
(* compare() / runCompare on the page that call it.                        *)
(*                                                                         *)
(* Costs are fixed-point numbers: the integer Scale stands for 1.0, so     *)
(* every cost of the code in [0,1] is an integer in 0..Scale.  Scale is a  *)
(* multiple of every denominator that occurs (thousandths of the derived   *)
(* parameters, quarters of the text/pixel weights, token-set unions), so   *)
(* the arithmetic of the model is exact.  The code stores dp in a          *)
(* Float32Array; rounding to single precision is not modelled.             *)
(***************************************************************************)
EXTENDS Integers, Sequences, FiniteSets, TLC

VARIABLES
    pc,          \* position of the run
    matchWindow, \* opts.matchWindow as read from the slider
    scanned,     \* opts.scanned
    textsA,      \* extracted page texts of document A (1-based sequence)
    textsB,      \* extracted page texts of document B
    pixel,       \* result of pagePixelCost for every pair <<aIdx, bIdx>>
    dp, back, gapA, gapB,  \* tables of the general path
    cache,       \* memo of combined costs, keyed by <<aIdx, bIdx>>
    calls,       \* number of combinedCost evaluations per pair
    steps,       \* the EditScript
    throwAt,     \* the pair on which the pixel primitive throws, or NoThrow
    outParams,   \* the params field of the returned value
    txtA, txtB,  \* arguments of a jaccardCost call
    txtCost,     \* its result, NoResult before the call
    runs,        \* the compare() runs of the page: stage, inputs, outcome
    active,      \* the run that is inside buildAlignmentDP, 0 when none is
    results,     \* the results container: its text and its blocks
    lastResults, \* the module variable lastResults
    session,     \* the page load the behaviour is in
    alone,       \* outcome of each run in the page load it has to itself
    overlapped,  \* a compare() was called while another was in progress
    dlDisabled,  \* the disabled flag of the download button
    downloads,   \* the downloadComparison() calls of the page
    pdfs,        \* number of PDF files saved
    imgA, imgB,  \* arguments of a pagePixelCost call: the two page canvases
    pmCall,      \* the call of the pixel primitive it made
    pxCost       \* its result, NoResult before the call

vars == <<pc, matchWindow, scanned, textsA, textsB, pixel, dp, back, gapA, gapB,
          cache, calls, steps, throwAt, outParams, txtA, txtB, txtCost,
          runs, active, results, lastResults, session, alone, overlapped,
          dlDisabled, downloads, pdfs, imgA, imgB, pmCall, pxCost>>

alignVars == <<pc, matchWindow, scanned, textsA, textsB, pixel, dp, back, gapA,
               gapB, cache, calls, steps, throwAt, outParams>>

textVars == <<txtA, txtB, txtCost>>

pixVars == <<imgA, imgB, pmCall, pxCost>>

dlVars == <<dlDisabled, downloads, pdfs>>

pageVars == <<runs, active, results, lastResults, session, alone, overlapped,
              dlVars>>

\* no value yet
NoResult == -1

\* 1.0 in fixed point
Scale == 84000

\* Infinity, larger than every finite cost the tables can hold
Infinity == 2000000000

Min(a, b) == IF a <= b THEN a ELSE b

Max(a, b) == IF a >= b THEN a ELSE b

(***************************************************************************)
(* Text normalizer.  A text is a sequence of one-character strings, or     *)
(* NullText (no one-character string) for a null/undefined page text.      *)
(***************************************************************************)
NullText == <<"null">>

LowerAlnum == {"a", "b", "c", "d", "e", "f", "x", "y", "0", "1"}

\* String.prototype.toLowerCase on one character
ToLowerChar(c) ==
    CASE c = "A" -> "a"
      [] c = "B" -> "b"
      [] c = "C" -> "c"
      [] c = "X" -> "x"
      [] OTHER -> c

toLowerCase(s) == [i \in 1..Len(s) |-> ToLowerChar(s[i])]

\* replace(/[^a-z0-9]+/g, " "): every maximal run of other characters
\* becomes one space
RECURSIVE ReplaceNonAlnum(_)
ReplaceNonAlnum(s) ==
    IF s = <<>> THEN <<>>
    ELSE IF Head(s) \in LowerAlnum THEN <<Head(s)>> \o ReplaceNonAlnum(Tail(s))
    ELSE IF Len(s) >= 2 /\ s[2] \notin LowerAlnum THEN ReplaceNonAlnum(Tail(s))
    ELSE <<" ">> \o ReplaceNonAlnum(Tail(s))

RECURSIVE TrimStart(_)
TrimStart(s) ==
    IF s # <<>> /\ Head(s) = " " THEN TrimStart(Tail(s)) ELSE s

RECURSIVE TrimEnd(_)
TrimEnd(s) ==
    IF s # <<>> /\ s[Len(s)] = " " THEN TrimEnd(SubSeq(s, 1, Len(s) - 1)) ELSE s

trim(s) == TrimEnd(TrimStart(s))

normalizeText(s) ==
    trim(ReplaceNonAlnum(toLowerCase(IF s = NullText THEN <<>> ELSE s)))

\* split(/\s+/): the pieces between maximal runs of spaces; the empty string
\* splits into one empty piece.  cur is the piece being read.
RECURSIVE SplitFrom(_, _, _)
SplitFrom(s, cur, inSep) ==
    IF s = <<>> THEN <<cur>>
    ELSE IF Head(s) = " "
         THEN IF inSep THEN SplitFrom(Tail(s), cur, TRUE)
              ELSE <<cur>> \o SplitFrom(Tail(s), <<>>, TRUE)
    ELSE SplitFrom(Tail(s), cur \o <<Head(s)>>, FALSE)

split(s) == SplitFrom(s, <<>>, FALSE)

tokenSetBuggy(s) ==
    LET parts == split(normalizeText(s))
    IN  {parts[k] : k \in {k \in 1..Len(parts) : Len(parts[k]) >= 2}}

tokenSet(s) ==
    LET parts == split(normalizeText(s))
    IN  {parts[k] : k \in {k \in 1..Len(parts) : Len(parts[k]) >= 3}}

jaccardCostBuggy(textA, textB) ==
    LET A == tokenSet(textA)
        B == tokenSet(textB)
        inter == Cardinality({x \in A : x \in B})
        union == Cardinality(A)
    IN  IF A = {} /\ B = {} THEN Scale \div 2
        ELSE IF A = {} \/ B = {} THEN Scale
        ELSE Scale - (IF union # 0 THEN (inter * Scale) \div union ELSE 0)

jaccardCost(textA, textB) ==
    LET A == tokenSet(textA)
        B == tokenSet(textB)
        inter == Cardinality({x \in A : x \in B})
        union == Cardinality(A) + Cardinality(B) - inter
    IN  IF A = {} /\ B = {} THEN Scale \div 2
        ELSE IF A = {} \/ B = {} THEN Scale
        ELSE Scale - (IF union # 0 THEN (inter * Scale) \div union ELSE 0)

(***************************************************************************)
(* Cost model.  Page indices are 0-based as in the code; textsA and textsB *)
(* are 1-based sequences, so page aIdx has text textsA[aIdx + 1].          *)
(***************************************************************************)
n == Len(textsA)

m == Len(textsB)

\* pagePixelCost: the mismatched-pixel fraction the primitive reports
pagePixelCost(aIdx, bIdx) == pixel[<<aIdx, bIdx>>]

combinedCostNoScannedFlag(aIdx, bIdx) ==
    LET pCost == pagePixelCost(aIdx, bIdx)
        tCost == jaccardCost(textsA[aIdx + 1], textsB[bIdx + 1])
        aHasText == Len(normalizeText(textsA[aIdx + 1])) > 20
        bHasText == Len(normalizeText(textsB[bIdx + 1])) > 20
        wText == IF aHasText /\ bHasText THEN 3 ELSE 1
    IN  (wText * tCost + (4 - wText) * pCost) \div 4

combinedCostAtLeast20(aIdx, bIdx) ==
    LET pCost == pagePixelCost(aIdx, bIdx)
        tCost == jaccardCost(textsA[aIdx + 1], textsB[bIdx + 1])
        aHasText == Len(normalizeText(textsA[aIdx + 1])) >= 20
        bHasText == Len(normalizeText(textsB[bIdx + 1])) >= 20
        wText == IF aHasText /\ bHasText THEN 3 ELSE 1
    IN  IF scanned THEN pCost
        ELSE (wText * tCost + (4 - wText) * pCost) \div 4

combinedCost(aIdx, bIdx) ==
    LET pCost == pagePixelCost(aIdx, bIdx)
        tCost == jaccardCost(textsA[aIdx + 1], textsB[bIdx + 1])
        aHasText == Len(normalizeText(textsA[aIdx + 1])) > 20
        bHasText == Len(normalizeText(textsB[bIdx + 1])) > 20
        wText == IF aHasText /\ bHasText THEN 3 ELSE 1   \* in quarters
    IN  IF scanned THEN pCost
        ELSE (wText * tCost + (4 - wText) * pCost) \div 4

alignmentParamsNoUpperClamp(mwIn) ==
    LET mw == Max(0, mwIn)
    IN  [maxConsecutiveGaps |-> mw,
         gapPenalty |-> IF mw = 0 THEN 999 * Scale
                        ELSE (220 * Scale) \div 1000 - mw * ((32 * Scale) \div 1000),
         badMatchCutoff |-> (550 * Scale) \div 1000 - mw * ((50 * Scale) \div 1000),
         badMatchPenalty |-> mw * ((40 * Scale) \div 1000)]

alignmentParamsFromMatchWindow(mwIn) ==
    LET mw == Max(0, Min(5, mwIn))
    IN  [maxConsecutiveGaps |-> mw,
         gapPenalty |-> IF mw = 0 THEN 999 * Scale
                        ELSE (220 * Scale) \div 1000 - mw * ((32 * Scale) \div 1000),
         badMatchCutoff |-> (550 * Scale) \div 1000 - mw * ((50 * Scale) \div 1000),
         badMatchPenalty |-> mw * ((40 * Scale) \div 1000)]

params == alignmentParamsFromMatchWindow(matchWindow)

(***************************************************************************)
(* AlignmentStep values                                                    *)
(***************************************************************************)
MatchStep(a, b, c) == [type |-> "match", aIndex |-> a, bIndex |-> b, cost |-> c]

DeleteAStep(a) == [type |-> "deleteA", aIndex |-> a]

InsertBStep(b) == [type |-> "insertB", bIndex |-> b]

(***************************************************************************)
(* buildAlignmentDP, tolerance-0 fast path                                 *)
(***************************************************************************)
FastPathStepsOffByOne ==
    LET count == Min(n, m)
    IN  [k \in 1..count |-> MatchStep(k - 1, k - 1, combinedCost(k - 1, k - 1))]
        \o [k \in 1..(n - count) |-> DeleteAStep(count + k)]
        \o [k \in 1..(m - count) |-> InsertBStep(count + k - 1)]

FastPathSteps ==
    LET count == Min(n, m)
    IN  [k \in 1..count |-> MatchStep(k - 1, k - 1, combinedCost(k - 1, k - 1))]
        \o [k \in 1..(n - count) |-> DeleteAStep(count + k - 1)]
        \o [k \in 1..(m - count) |-> InsertBStep(count + k - 1)]

\* the pair on which the pixel primitive throws: none
NoThrow == <<>>

\* the fast-path loop reaches the pair on which the primitive throws
FastPathThrows ==
    /\ throwAt # NoThrow
    /\ throwAt[1] = throwAt[2]
    /\ throwAt[1] < Min(n, m)

\* evaluations of combinedCost by the fast-path loop, which stops at the
\* pair on which the primitive throws
FastPathCalls ==
    LET last == IF FastPathThrows THEN throwAt[1] ELSE Min(n, m) - 1
    IN  [k \in {<<i, i>> : i \in 0..last} |-> 1]

ReturnedStepsOnly == <<>>

\* the params field of the value returned at either return statement
ReturnedParams ==
    [maxConsecutiveGaps |-> params.maxConsecutiveGaps,
     gapPenalty |-> params.gapPenalty,
     badMatchCutoff |-> params.badMatchCutoff,
     badMatchPenalty |-> params.badMatchPenalty]

NoParams == <<>>

(***************************************************************************)
(* buildAlignmentDP, general path.  Tables are functions on the cells      *)
(* <<i, j>>, i in 0..n, j in 0..m.  back: 0 diagonal, 1 up, 2 left.        *)
(***************************************************************************)
Cells == (0..n) \X (0..m)

NoTable == <<>>

\* dp after "dp[0][0] = 0" and the two seeding loops
SeededDp ==
    LET g == params.gapPenalty
        col[i \in 0..n] == IF i = 0 THEN 0 ELSE col[i - 1] + g
        row[j \in 0..m] == IF j = 0 THEN 0 ELSE row[j - 1] + g
    IN  [c \in Cells |-> IF c[2] = 0 THEN col[c[1]]
                         ELSE IF c[1] = 0 THEN row[c[2]]
                         ELSE Infinity]

SeededBack ==
    [c \in Cells |-> IF c[2] = 0 /\ c[1] >= 1 THEN 1
                     ELSE IF c[1] = 0 /\ c[2] >= 1 THEN 2
                     ELSE 0]

SeededGapA ==
    LET col[i \in 0..n] == IF i = 0 THEN 0 ELSE col[i - 1] + 1
    IN  [c \in Cells |-> IF c[2] = 0 THEN col[c[1]] ELSE 0]

SeededGapB ==
    LET row[j \in 0..m] == IF j = 0 THEN 0 ELSE row[j - 1] + 1
    IN  [c \in Cells |-> IF c[1] = 0 THEN row[c[2]] ELSE 0]

\* cost(i, j): read-through cache over combinedCost.  Returns the tables
\* record t with cache and calls updated, and the value in field v; when the
\* pixel primitive throws for the pair, t.thrown is set and nothing is cached.
\* calls after one more evaluation of the pair k
Counted(c, k) == (k :> (IF k \in DOMAIN c THEN c[k] + 1 ELSE 1)) @@ c

costNotStored(t, i, j) ==
    LET k == <<i, j>>
    IN  IF k \in DOMAIN t.cache
        THEN [t EXCEPT !.v = t.cache[k]]
        ELSE IF k = throwAt
        THEN [t EXCEPT !.thrown = TRUE, !.calls = Counted(t.calls, k)]
        ELSE [t EXCEPT !.v = combinedCost(i, j),
                       !.calls = Counted(t.calls, k)]

costSwallowsThrow(t, i, j) ==
    LET k == <<i, j>>
        v == IF k = throwAt THEN Scale ELSE combinedCost(i, j)
    IN  IF k \in DOMAIN t.cache
        THEN [t EXCEPT !.v = t.cache[k]]
        ELSE [t EXCEPT !.v = v,
                       !.cache = (k :> v) @@ t.cache,
                       !.calls = Counted(t.calls, k)]

cost(t, i, j) ==
    LET k == <<i, j>>
    IN  IF k \in DOMAIN t.cache
        THEN [t EXCEPT !.v = t.cache[k]]
        ELSE IF k = throwAt
        THEN [t EXCEPT !.thrown = TRUE, !.calls = Counted(t.calls, k)]
        ELSE LET v == combinedCost(i, j)
             IN  [t EXCEPT !.v = v,
                           !.cache = (k :> v) @@ t.cache,
                           !.calls = Counted(t.calls, k)]

SurchargedAlways(c) == c + params.badMatchPenalty

\* "matchCost > badMatchCutoff": the surcharge of a bad match
Surcharged(c) == IF c > params.badMatchCutoff THEN c + params.badMatchPenalty ELSE c

GapLegalAlways(run) == TRUE

GapLegalLe(run) == run <= params.maxConsecutiveGaps

\* "gapA[i - 1][j] < maxConsecutiveGaps" and the same test on gapB
GapLegal(run) == run < params.maxConsecutiveGaps

\* the three branches that record the chosen move of cell c
TakeDiag(t, c, cDiag) ==
    [t EXCEPT !.dp[c] = cDiag, !.back[c] = 0, !.gapA[c] = 0, !.gapB[c] = 0]

TakeUpRestartsRun(t, c, cUp) ==
    [t EXCEPT !.dp[c] = cUp, !.back[c] = 1, !.gapA[c] = 1, !.gapB[c] = 0]

TakeUp(t, c, cUp) ==
    [t EXCEPT !.dp[c] = cUp, !.back[c] = 1,
              !.gapA[c] = t.gapA[<<c[1] - 1, c[2]>>] + 1, !.gapB[c] = 0]

TakeLeftBackCopy(t, c, cLeft) ==
    [t EXCEPT !.dp[c] = cLeft, !.back[c] = 1,
              !.gapB[c] = t.gapB[<<c[1], c[2] - 1>>] + 1, !.gapA[c] = 0]

TakeLeft(t, c, cLeft) ==
    [t EXCEPT !.dp[c] = cLeft, !.back[c] = 2,
              !.gapB[c] = t.gapB[<<c[1], c[2] - 1>>] + 1, !.gapA[c] = 0]

ChooseMoveLeftOnTie(t, c, cDiag, cUp, cLeft) ==
    IF cDiag <= cUp /\ cDiag <= cLeft THEN TakeDiag(t, c, cDiag)
    ELSE IF cUp < cLeft THEN TakeUp(t, c, cUp)
    ELSE TakeLeft(t, c, cLeft)

\* the if / else-if / else on the three candidates
ChooseMove(t, c, cDiag, cUp, cLeft) ==
    IF cDiag <= cUp /\ cDiag <= cLeft THEN TakeDiag(t, c, cDiag)
    ELSE IF cUp <= cLeft THEN TakeUp(t, c, cUp)
    ELSE TakeLeft(t, c, cLeft)

CandidatesNoSurcharge(t, i, j) ==
    IF t.thrown THEN t
    ELSE
    ChooseMove(t, <<i, j>>,
               t.dp[<<i - 1, j - 1>>] + t.v,
               IF GapLegal(t.gapA[<<i - 1, j>>])
               THEN t.dp[<<i - 1, j>>] + params.gapPenalty ELSE Infinity,
               IF GapLegal(t.gapB[<<i, j - 1>>])
               THEN t.dp[<<i, j - 1>>] + params.gapPenalty ELSE Infinity)

\* the candidates of cell (i, j), t holding the pair's raw cost in t.v; an
\* exception thrown by cost(i - 1, j - 1) leaves the cell unwritten
Candidates(t, i, j) ==
    IF t.thrown THEN t
    ELSE
    ChooseMove(t, <<i, j>>,
               t.dp[<<i - 1, j - 1>>] + Surcharged(t.v),
               IF GapLegal(t.gapA[<<i - 1, j>>])
               THEN t.dp[<<i - 1, j>>] + params.gapPenalty ELSE Infinity,
               IF GapLegal(t.gapB[<<i, j - 1>>])
               THEN t.dp[<<i, j - 1>>] + params.gapPenalty ELSE Infinity)

\* combinedCost called directly, past the cache
costUncached(t, i, j) ==
    [t EXCEPT !.v = combinedCost(i, j), !.calls = Counted(t.calls, <<i, j>>)]

FillCellRecompute(t, i, j) ==
    Candidates(costUncached(cost(t, i - 1, j - 1), i - 1, j - 1), i, j)

\* Body of the inner loop of the DP fill for cell (i, j), i, j >= 1
FillCell(t, i, j) == Candidates(cost(t, i - 1, j - 1), i, j)

\* The two nested loops, rows outermost; k counts the cells already filled.
\* An exception ends the loops.
RECURSIVE FillFrom(_, _)
FillFrom(t, k) ==
    IF k >= n * m \/ t.thrown THEN t
    ELSE FillFrom(FillCell(t, (k \div m) + 1, (k % m) + 1), k + 1)

RECURSIVE BacktraceFromOffByOne(_, _)
BacktraceFromOffByOne(i, j) ==
    IF ~(i > 0 \/ j > 0) THEN <<>>
    ELSE LET move == back[<<i, j>>]
         IN  IF move = 0
             THEN LET key == <<i - 1, j - 1>>
                      rawCost == IF key \in DOMAIN cache THEN cache[key] ELSE Scale
                  IN  <<MatchStep(i - 1, j - 1, rawCost)>> \o BacktraceFromOffByOne(i - 1, j - 1)
             ELSE IF move = 1
             THEN <<DeleteAStep(i)>> \o BacktraceFromOffByOne(i - 1, j)
             ELSE <<InsertBStep(j - 1)>> \o BacktraceFromOffByOne(i, j - 1)

RECURSIVE BacktraceFromSilentLeft(_, _)
BacktraceFromSilentLeft(i, j) ==
    IF ~(i > 0 \/ j > 0) THEN <<>>
    ELSE LET move == back[<<i, j>>]
         IN  IF move = 0
             THEN LET key == <<i - 1, j - 1>>
                      rawCost == IF key \in DOMAIN cache THEN cache[key] ELSE Scale
                  IN  <<MatchStep(i - 1, j - 1, rawCost)>>
                          \o BacktraceFromSilentLeft(i - 1, j - 1)
             ELSE IF move = 1
             THEN <<DeleteAStep(i - 1)>> \o BacktraceFromSilentLeft(i - 1, j)
             ELSE BacktraceFromSilentLeft(i, j - 1)

RECURSIVE BacktraceFromSurcharged(_, _)
BacktraceFromSurcharged(i, j) ==
    IF ~(i > 0 \/ j > 0) THEN <<>>
    ELSE LET move == back[<<i, j>>]
         IN  IF move = 0
             THEN LET key == <<i - 1, j - 1>>
                      rawCost == IF key \in DOMAIN cache THEN cache[key] ELSE Scale
                  IN  <<MatchStep(i - 1, j - 1, Surcharged(rawCost))>>
                          \o BacktraceFromSurcharged(i - 1, j - 1)
             ELSE IF move = 1
             THEN <<DeleteAStep(i - 1)>> \o BacktraceFromSurcharged(i - 1, j)
             ELSE <<InsertBStep(j - 1)>> \o BacktraceFromSurcharged(i, j - 1)

\* The backtrace loop from cell (i, j); yields the steps in the order pushed
RECURSIVE BacktraceFrom(_, _)
BacktraceFrom(i, j) ==
    IF ~(i > 0 \/ j > 0) THEN <<>>
    ELSE LET move == back[<<i, j>>]
         IN  IF move = 0
             THEN LET key == <<i - 1, j - 1>>
                      rawCost == IF key \in DOMAIN cache THEN cache[key] ELSE Scale
                  IN  <<MatchStep(i - 1, j - 1, rawCost)>> \o BacktraceFrom(i - 1, j - 1)
             ELSE IF move = 1
             THEN <<DeleteAStep(i - 1)>> \o BacktraceFrom(i - 1, j)
             ELSE <<InsertBStep(j - 1)>> \o BacktraceFrom(i, j - 1)

reverseOmitted(s) == s

reverse(s) == [k \in 1..Len(s) |-> s[Len(s) + 1 - k]]

(***************************************************************************)
(* Actions of one run of buildAlignmentDP                                  *)
(***************************************************************************)
inputVars == <<matchWindow, scanned, textsA, textsB, pixel, throwAt>>

FastPath ==
    /\ pc = "start"
    /\ matchWindow = 0
    /\ calls' = FastPathCalls
    /\ IF FastPathThrows
       THEN pc' = "failed" /\ UNCHANGED <<steps, outParams>>
       ELSE /\ steps' = FastPathSteps
            /\ outParams' = ReturnedParams
            /\ pc' = "done"
    /\ UNCHANGED <<inputVars, dp, back, gapA, gapB, cache, textVars, pixVars, pageVars>>

SeedKeepsCache ==
    /\ pc = "start"
    /\ matchWindow # 0
    /\ dp' = SeededDp
    /\ back' = SeededBack
    /\ gapA' = SeededGapA
    /\ gapB' = SeededGapB
    /\ cache' = cache
    /\ pc' = "seeded"
    /\ UNCHANGED <<inputVars, calls, steps, outParams, textVars, pixVars, pageVars>>

Seed ==
    /\ pc = "start"
    /\ matchWindow # 0
    /\ dp' = SeededDp
    /\ back' = SeededBack
    /\ gapA' = SeededGapA
    /\ gapB' = SeededGapB
    /\ cache' = <<>>
    /\ pc' = "seeded"
    /\ UNCHANGED <<inputVars, calls, steps, outParams, textVars, pixVars, pageVars>>

Fill ==
    /\ pc = "seeded"
    /\ LET t == FillFrom([dp |-> dp, back |-> back, gapA |-> gapA, gapB |-> gapB,
                          cache |-> cache, calls |-> calls, v |-> 0,
                          thrown |-> FALSE], 0)
       IN  /\ dp' = t.dp
           /\ back' = t.back
           /\ gapA' = t.gapA
           /\ gapB' = t.gapB
           /\ cache' = t.cache
           /\ calls' = t.calls
           /\ pc' = IF t.thrown THEN "failed" ELSE "filled"
    /\ UNCHANGED <<inputVars, steps, outParams, textVars, pixVars, pageVars>>

Backtrace ==
    /\ pc = "filled"
    /\ steps' = reverse(BacktraceFrom(n, m))
    /\ outParams' = ReturnedParams
    /\ pc' = "done"
    /\ UNCHANGED <<inputVars, dp, back, gapA, gapB, cache, calls, textVars, pixVars, pageVars>>

NextAlign == FastPath \/ Seed \/ Fill \/ Backtrace

(***************************************************************************)
(* Inputs                                                                  *)
(***************************************************************************)
MaxPages == 3

MaxCells == 6

\* matchWindow values tried: -1, the slider's 0..5, and 6
MaxMatchWindow == 6

\* pixel costs tried: 0, 1/8 and 1
PixelCosts == {0, Scale \div 8, Scale}

EmptyText == <<>>

InitRun ==
    /\ pc = "start"
    /\ dp = NoTable /\ back = NoTable /\ gapA = NoTable /\ gapB = NoTable
    /\ cache = <<>> /\ calls = <<>> /\ steps = <<>> /\ outParams = NoParams

\* the results container: the text set through innerHTML and the blocks
\* appended to it
EmptyResults == [text |-> "", blocks |-> <<>>]

NoRun == 0

\* lastResults before any run has assigned it
NoLastResults == [run |-> NoRun, steps |-> <<>>]

\* the canvas of a page
Canvas(w, h) == [width |-> w, height |-> h]

\* no call of the pixel primitive
NoCall == [called |-> FALSE, width |-> 0, height |-> 0, aLen |-> 0, bLen |-> 0,
           outLen |-> 0, diffCount |-> 0]

\* no call of pagePixelCost on its own
InitNoPixel ==
    /\ imgA = Canvas(1, 1) /\ imgB = Canvas(1, 1)
    /\ pmCall = NoCall /\ pxCost = NoResult

\* a downloadComparison() call that has not been made
IdleDownload == [stage |-> "idle"]

\* the download button starts disabled; no downloadComparison() call
InitNoDownload == dlDisabled = TRUE /\ downloads = <<>> /\ pdfs = 0

\* buildAlignmentDP called on its own, outside a page
InitNoPage ==
    /\ InitNoPixel
    /\ InitNoDownload
    /\ runs = <<>> /\ active = NoRun /\ results = EmptyResults
    /\ lastResults = NoLastResults /\ session = 0 /\ alone = <<>>
    /\ overlapped = FALSE

\* a call of buildAlignmentDP on its own with a primitive that never throws
InitDirect == InitNoPage /\ throwAt = NoThrow

InitNoText ==
    /\ txtA = EmptyText /\ txtB = EmptyText /\ txtCost = NoResult

\* Any two documents of image-only pages, any pair costs, any slider value
Init ==
    /\ InitRun
    /\ InitNoText
    /\ InitDirect
    /\ matchWindow \in (-1)..MaxMatchWindow
    /\ scanned = TRUE
    /\ \E na \in 0..MaxPages, nb \in 0..MaxPages :
          /\ na * nb <= MaxCells
          /\ textsA = [k \in 1..na |-> EmptyText]
          /\ textsB = [k \in 1..nb |-> EmptyText]
          /\ pixel \in [(0..(na - 1)) \X (0..(nb - 1)) -> PixelCosts]

Next == NextAlign

Spec == Init /\ [][Next]_vars

(***************************************************************************)
(* jaccardCost on its own: texts built from a few chunks                   *)
(***************************************************************************)
MaxChunks == 3

Chunks == {<<"A", "b", "c", " ">>, <<"a", "b", "c">>, <<"x", "1">>, <<".", "-">>}

RECURSIVE Flatten(_)
Flatten(cs) == IF cs = <<>> THEN <<>> ELSE Head(cs) \o Flatten(Tail(cs))

TextInputs ==
    {Flatten(cs) : cs \in UNION {[1..k -> Chunks] : k \in 0..MaxChunks}}
        \cup {NullText}

InitText ==
    /\ InitRun
    /\ InitDirect
    /\ pc = "start"
    /\ matchWindow = 0 /\ scanned = TRUE
    /\ textsA = <<>> /\ textsB = <<>> /\ pixel = <<>>
    /\ txtA \in TextInputs
    /\ txtB \in TextInputs
    /\ txtCost = NoResult

CallJaccard ==
    /\ txtCost = NoResult
    /\ txtCost' = jaccardCost(txtA, txtB)
    /\ UNCHANGED <<alignVars, txtA, txtB, pageVars, pixVars>>

NextText == CallJaccard

SpecText == InitText /\ [][NextText]_vars

(***************************************************************************)
(* Properties of jaccardCost                                               *)
(***************************************************************************)

\* C9: jaccardCost(a, b) lies in [0,1] and equals jaccardCost(b, a), for
\* all texts including empty, null and texts of short tokens only.
C9_RangeAndSymmetry ==
    txtCost # NoResult =>
        /\ txtCost \in 0..Scale
        /\ txtCost = jaccardCost(txtB, txtA)

\* A call on two texts with token sets of different sizes that overlap
C9_Witness ==
    /\ txtCost # NoResult
    /\ txtCost > 0 /\ txtCost < Scale
    /\ Cardinality(tokenSet(txtA)) # Cardinality(tokenSet(txtB))

\* Reference token set: the distinct maximal runs of letters and digits of
\* the raw text, of length >= 3, in lower case
IsAlnum(c) == ToLowerChar(c) \in LowerAlnum

RefTokens(s) ==
    LET t == IF s = NullText THEN <<>> ELSE s
        IsWord(i, j) ==
            /\ \A k \in i..j : IsAlnum(t[k])
            /\ (i = 1 \/ ~IsAlnum(t[i - 1]))
            /\ (j = Len(t) \/ ~IsAlnum(t[j + 1]))
    IN  {toLowerCase(SubSeq(t, w[1], w[2])) :
            w \in {w \in (1..Len(t)) \X (1..Len(t)) :
                      w[1] <= w[2] /\ w[2] - w[1] + 1 >= 3 /\ IsWord(w[1], w[2])}}

\* C10: jaccardCost is 0.5 when both token sets are empty, 1 when exactly
\* one is, and otherwise 1 - |A n B| / |A u B|; it is 0 exactly when the
\* token sets are non-empty and equal.
C10_ReferenceDefinition ==
    txtCost # NoResult =>
        LET A == RefTokens(txtA)
            B == RefTokens(txtB)
            u == Cardinality(A \cup B)
            i == Cardinality(A \cap B)
        IN  /\ (A = {} /\ B = {}) => txtCost = Scale \div 2
            /\ ((A = {}) # (B = {})) => txtCost = Scale
            /\ (A # {} /\ B # {}) => txtCost * u = Scale * u - Scale * i
            /\ (txtCost = 0) <=> (A # {} /\ A = B)

\* A call on two texts whose token sets overlap partly, one of them holding
\* an upper-case word and a short token
C10_Witness ==
    /\ txtCost # NoResult
    /\ RefTokens(txtA) \cap RefTokens(txtB) # {}
    /\ RefTokens(txtA) # RefTokens(txtB)
    /\ \E k \in 1..Len(txtA) : txtA[k] = "A"
    /\ <<"x", "1">> \in {split(normalizeText(txtA))[k] :
                            k \in 1..Len(split(normalizeText(txtA)))}

(***************************************************************************)
(* Properties of the EditScript                                            *)
(***************************************************************************)
Returned == pc = "done"

\* the tolerance in force, for a slider value within 0..5
tolerance == params.maxConsecutiveGaps

HasA(s) == s.type \in {"match", "deleteA"}

HasB(s) == s.type \in {"match", "insertB"}

\* aIndex of the Match and DeleteA steps, in script order
AIndices == LET f == SelectSeq(steps, HasA) IN [k \in 1..Len(f) |-> f[k].aIndex]

\* bIndex of the Match and InsertB steps, in script order
BIndices == LET f == SelectSeq(steps, HasB) IN [k \in 1..Len(f) |-> f[k].bIndex]

Range(f) == {f[k] : k \in DOMAIN f}

StrictlyIncreasing(f) == \A k \in 1..(Len(f) - 1) : f[k] < f[k + 1]

\* C1: coverage/partition law.  Every A index 0..n-1 occurs in exactly one
\* Match or DeleteA step and every B index 0..m-1 in exactly one Match or
\* InsertB step, and no other index occurs (tolerance 0..5, both paths).
C1_Coverage ==
    (Returned /\ matchWindow \in 0..5) =>
        /\ Len(AIndices) = n /\ Range(AIndices) = 0..(n - 1)
        /\ Len(BIndices) = m /\ Range(BIndices) = 0..(m - 1)

\* A script of the general path that holds all three kinds of step
C1_Witness ==
    /\ Returned /\ matchWindow \in 1..5
    /\ {steps[k].type : k \in 1..Len(steps)} = {"match", "deleteA", "insertB"}

\* C2: ordering law.  The A indices of Match/DeleteA steps and the B indices
\* of Match/InsertB steps are strictly increasing in script order.
C2_Ordering ==
    (Returned /\ matchWindow \in 0..5) =>
        StrictlyIncreasing(AIndices) /\ StrictlyIncreasing(BIndices)

\* A script of the general path with a gap between two Match steps
C2_Witness ==
    /\ Returned /\ matchWindow \in 1..5
    /\ \E k \in 2..(Len(steps) - 1) :
          /\ steps[k - 1].type = "match"
          /\ steps[k].type # "match"
          /\ steps[k + 1].type = "match"

\* the step without its cost
Shape(s) == IF s.type = "match" THEN <<"match", s.aIndex, s.bIndex>>
            ELSE IF s.type = "deleteA" THEN <<"deleteA", s.aIndex>>
            ELSE <<"insertB", s.bIndex>>

Shapes(ss) == [k \in 1..Len(ss) |-> Shape(ss[k])]

\* C5: with tolerance exactly 0 the script is Match(k,k) for k < min(n,m),
\* then DeleteA(k) for the remaining pages of A or InsertB(k) for the
\* remaining pages of B; never both kinds of gap, never unequal indices.
C5_FastPathResult ==
    (Returned /\ matchWindow = 0) =>
        /\ Len(steps) = Max(n, m)
        /\ \A k \in 1..Len(steps) :
              Shape(steps[k]) = IF k <= Min(n, m) THEN <<"match", k - 1, k - 1>>
                                ELSE IF n > m THEN <<"deleteA", k - 1>>
                                ELSE <<"insertB", k - 1>>

\* A fast-path script with matches followed by two deletions
C5_Witness ==
    /\ Returned /\ matchWindow = 0
    /\ n = m + 2 /\ m >= 1
    /\ steps[Len(steps)].type = "deleteA"

\* C4: the script of the tolerance-0 fast path equals the script the
\* general path produces with maxConsecutiveGaps = 0 and the tolerance-0
\* gap penalty (the run of a slider value below 0, clamped to 0).
C4_FastPathEquivalence ==
    (Returned /\ matchWindow < 0) => steps = FastPathSteps

\* maximal runs: steps a..b all of type ty, not extendable on either side
IsRun(ty, a, b) ==
    /\ 1 <= a /\ a <= b /\ b <= Len(steps)
    /\ \A k \in a..b : steps[k].type = ty
    /\ (a = 1 \/ steps[a - 1].type # ty)
    /\ (b = Len(steps) \/ steps[b + 1].type # ty)

Runs(ty) == {r \in (1..Len(steps)) \X (1..Len(steps)) : IsRun(ty, r[1], r[2])}

GapTypes == {"deleteA", "insertB"}

StepCost(s) == IF s.type = "match" THEN Surcharged(combinedCost(s.aIndex, s.bIndex))
               ELSE params.gapPenalty

RECURSIVE TotalCost(_)
TotalCost(ss) == IF ss = <<>> THEN 0 ELSE StepCost(Head(ss)) + TotalCost(Tail(ss))

\* Least cost of completing a script from the point where i pages of A and
\* j pages of B are consumed, the last step was of type last and ended a
\* run of length run, when no run of DeleteA or of InsertB may exceed t.
\* Infinity when no such completion exists.
RECURSIVE BestFrom(_, _, _, _, _)
BestFrom(i, j, last, run, t) ==
    IF i = n /\ j = m THEN 0
    ELSE LET viaMatch ==
                 IF i < n /\ j < m
                 THEN LET r == BestFrom(i + 1, j + 1, "match", 0, t)
                      IN  IF r = Infinity THEN Infinity
                          ELSE Surcharged(combinedCost(i, j)) + r
                 ELSE Infinity
             viaGap(ty) ==
                 LET len == IF last = ty THEN run + 1 ELSE 1
                     ok == IF ty = "deleteA" THEN i < n ELSE j < m
                 IN  IF ok /\ len <= t
                     THEN LET r == IF ty = "deleteA"
                                   THEN BestFrom(i + 1, j, ty, len, t)
                                   ELSE BestFrom(i, j + 1, ty, len, t)
                          IN  IF r = Infinity THEN Infinity ELSE params.gapPenalty + r
                     ELSE Infinity
         IN  Min(viaMatch, Min(viaGap("deleteA"), viaGap("insertB")))

\* C7: for tolerance t in 1..5 the returned script has minimal total cost:
\* no order-preserving script whose runs of DeleteA and of InsertB are at
\* most t long is strictly cheaper.
C7_LowestCost ==
    (Returned /\ matchWindow \in 1..5) =>
        TotalCost(steps) <= BestFrom(0, 0, "match", 0, tolerance)

(***************************************************************************)
(* Inserted-page scenario: A = [P1, P2, P3], B = [P1, X, P2, P3]           *)
(***************************************************************************)
\* costs tried for the pairs the scenario leaves open: 0, 1/8, 2/5 and 1
ScenarioCosts == {0, Scale \div 8, (2 * Scale) \div 5, Scale}

\* pairs of a page of A with its own copy in B
ScenarioCopies == {<<0, 0>>, <<1, 2>>, <<2, 3>>}

\* the pairs whose cost the scenario leaves open
ScenarioOpen == {c \in (0..2) \X (0..3) : c \notin ScenarioCopies /\ c[2] # 1}

InitScenario ==
    /\ InitRun
    /\ InitNoText
    /\ InitDirect
    /\ matchWindow \in 0..5
    /\ scanned = TRUE
    /\ textsA = [k \in 1..3 |-> EmptyText]
    /\ textsB = [k \in 1..4 |-> EmptyText]
    /\ \E open \in [ScenarioOpen -> ScenarioCosts] :
          pixel = [c \in (0..2) \X (0..3) |->
                      IF c \in ScenarioCopies THEN 0
                      ELSE IF c[2] = 1 THEN Scale
                      ELSE open[c]]

SpecScenario == InitScenario /\ [][NextAlign]_vars

\* C8: in the inserted-page scenario, whatever the costs of the other
\* pairs, the script is Match(0,0), InsertB(1), Match(1,2), Match(2,3) for
\* every tolerance 1..5.
C8_InsertedPage ==
    (Returned /\ matchWindow \in 1..5) =>
        Shapes(steps) = << <<"match", 0, 0>>, <<"insertB", 1>>,
                           <<"match", 1, 2>>, <<"match", 2, 3>> >>

\* The scenario with every open pair at cost 0, at the highest tolerance
C8_Witness ==
    /\ Returned /\ matchWindow = 5
    /\ \A c \in DOMAIN pixel : c[2] # 1 => pixel[c] = 0
    /\ Len(steps) = 4

(***************************************************************************)
(* A document compared against itself                                      *)
(***************************************************************************)
MaxDoc == 2

\* page images; the primitive reports 0 mismatched pixels for an image
\* against itself
Images == {"img1", "img2"}

\* page texts: none, short tokens only, one word, more than 20 characters
ShortOnlyText == <<"a", "b", " ", "x", "1">>

WordText == <<"A", "b", "c">>

LongText == <<"a", "b", "c", " ", "d", "e", "f", " ", "a", "b", "c", "d", "e", "f",
              " ", "x", "y", "0", "1", " ", "f", "e", "d">>

IdentityTexts == {EmptyText, ShortOnlyText, WordText, LongText}

InitIdentity ==
    /\ InitRun
    /\ InitNoText
    /\ InitDirect
    /\ matchWindow \in 0..5
    /\ scanned \in BOOLEAN
    /\ \E len \in 0..MaxDoc :
          \E img \in [1..len -> Images], txt \in [1..len -> IdentityTexts],
             dist \in PixelCosts :
             /\ textsA = txt
             /\ textsB = txt
             /\ pixel = [c \in (0..(len - 1)) \X (0..(len - 1)) |->
                            IF img[c[1] + 1] = img[c[2] + 1] THEN 0 ELSE dist]

SpecIdentity == InitIdentity /\ [][NextAlign]_vars

\* C3: identity.  A document compared against itself gives, for every
\* tolerance 0..5, exactly the steps Match(i,i) with cost 0, one per page,
\* and no InsertB or DeleteA step; pages without text or with short tokens
\* only included, scanned mode on or off.
C3_Identity ==
    (Returned /\ matchWindow \in 0..5) =>
        steps = [k \in 1..n |-> MatchStep(k - 1, k - 1, 0)]

(***************************************************************************)
(* One page against one page, with page texts                              *)
(***************************************************************************)
\* a text whose normalized form is exactly 20 characters long (22 raw)
Text20 == <<"a", "b", "c", ".", "-", "d", "e", "f", " ", "a", "b", "c", "d", "e",
            "f", " ", "x", "y", "0", "1", "f", " ">>

\* a text whose normalized form is 21 characters long
Text21 == <<"a", "b", "c", " ", "d", "e", "f", " ", "a", "b", "c", "d", "e", "f",
            " ", "x", "y", "0", "1", " ", "f">>

PairTexts == {EmptyText, WordText, Text20, Text21, LongText}

\* the texts of PairTexts with more than 20 characters once normalized
TextBearing == {Text21, LongText}

InitPair ==
    /\ InitRun
    /\ InitNoText
    /\ InitDirect
    /\ matchWindow \in 0..5
    /\ scanned \in BOOLEAN
    /\ \E ta \in PairTexts, tb \in PairTexts, p \in PixelCosts :
          /\ textsA = <<ta>>
          /\ textsB = <<tb>>
          /\ pixel = (<<0, 0>> :> p)

SpecPair == InitPair /\ [][NextAlign]_vars

\* the combined costs the run has evaluated: the cache of the general path
\* and the costs carried by the Match steps
EvaluatedCosts ==
    {<<k, cache[k]>> : k \in DOMAIN cache}
        \cup {<<<<steps[k].aIndex, steps[k].bIndex>>, steps[k].cost>> :
                 k \in {k \in 1..Len(steps) : steps[k].type = "match"}}

\* C11: in scanned mode the combined cost of every pair is its pixel cost,
\* whatever the page texts are, so no cost the alignment uses and no cost
\* the script carries depends on page text.
C11_ScannedReduction ==
    scanned => \A e \in EvaluatedCosts : e[2] = pixel[e[1]]

\* A scanned-mode run on two text-bearing pages with different texts whose
\* script matches them at their pixel cost
C11_Witness ==
    /\ Returned /\ scanned
    /\ textsA = <<LongText>> /\ textsB = <<Text21>>
    /\ pixel[<<0, 0>>] = Scale \div 8
    /\ steps = <<MatchStep(0, 0, Scale \div 8)>>

\* C12: outside scanned mode the combined cost is 0.75 textCost + 0.25
\* pixelCost when the normalized texts of both pages are longer than 20
\* characters and 0.25 textCost + 0.75 pixelCost otherwise, also when only
\* one page is text-bearing; it lies in [0,1].
C12_CostWeights ==
    ~scanned =>
        \A e \in EvaluatedCosts :
            LET ta == textsA[e[1][1] + 1]
                tb == textsB[e[1][2] + 1]
                tCost == jaccardCost(ta, tb)
                pCost == pixel[e[1]]
            IN  /\ 4 * e[2] = IF ta \in TextBearing /\ tb \in TextBearing
                              THEN 3 * tCost + pCost
                              ELSE tCost + 3 * pCost
                /\ e[2] \in 0..Scale

\* A run outside scanned mode on a page whose normalized text is exactly 20
\* characters long against a text-bearing page
C12_Witness ==
    /\ ~scanned /\ pc \in {"filled", "done"}
    /\ textsA = <<Text20>> /\ textsB = <<LongText>>
    /\ pixel[<<0, 0>>] = Scale \div 8
    /\ \E e \in EvaluatedCosts : e[2] = (Scale \div 2 + 3 * (Scale \div 8)) \div 4

(***************************************************************************)
(* The derived parameters                                                  *)
(***************************************************************************)
\* matched pairs of the longest all-match script considered
MaxScriptPages == 1000

\* the slider value clamped into 0..5
Clamped == IF matchWindow < 0 THEN 0 ELSE IF matchWindow > 5 THEN 5 ELSE matchWindow

\* what C13 says of the parameters of tolerances 0..5 and beyond, the
\* gap penalty of tolerance 0 left aside
ParamsLaws ==
    LET next == alignmentParamsFromMatchWindow(matchWindow + 1)
    IN  /\ outParams.maxConsecutiveGaps = Clamped
        /\ matchWindow > 5 => outParams = alignmentParamsFromMatchWindow(5)
        /\ matchWindow \in 1..5 => outParams.gapPenalty > 0
        /\ matchWindow \in 1..4 => outParams.gapPenalty > next.gapPenalty
        /\ matchWindow \in 0..4 =>
              /\ outParams.badMatchCutoff > next.badMatchCutoff
              /\ outParams.badMatchPenalty < next.badMatchPenalty

C14_NegativeRejected ==
    matchWindow < 0 => (~Returned /\ steps = <<>> /\ outParams = NoParams)

(***************************************************************************)
(* The returned value                                                      *)
(***************************************************************************)
ParamNames == {"maxConsecutiveGaps", "gapPenalty", "badMatchCutoff", "badMatchPenalty"}

\* the interior cells whose recorded move is the diagonal
DiagCells == {c \in DOMAIN back : c[1] >= 1 /\ c[2] >= 1 /\ back[c] = 0}

\* the tables were built with the parameters p: column 0 accumulates
\* p.gapPenalty, no interior run exceeds p.maxConsecutiveGaps, and a
\* diagonal move adds the pair's cost, surcharged by p.badMatchPenalty
\* above p.badMatchCutoff
TablesBuiltWith(p) ==
    /\ \A c \in DOMAIN dp : c[2] = 0 => dp[c] = c[1] * p.gapPenalty
    /\ \A c \in DOMAIN gapA :
          (c[1] >= 1 /\ c[2] >= 1) =>
              (gapA[c] <= p.maxConsecutiveGaps /\ gapB[c] <= p.maxConsecutiveGaps)
    /\ \A c \in DiagCells :
          LET raw == cache[<<c[1] - 1, c[2] - 1>>]
          IN  dp[c] = dp[<<c[1] - 1, c[2] - 1>>] + raw
                        + (IF raw > p.badMatchCutoff THEN p.badMatchPenalty ELSE 0)

\* C16: on the fast path and on the general path the returned value
\* carries the EditScript and the four derived parameters, which are the
\* parameters of the clamped tolerance and the ones the tables were built
\* with.
C16_ReturnsParams ==
    Returned =>
        /\ DOMAIN outParams = ParamNames
        /\ outParams = alignmentParamsFromMatchWindow(Clamped)
        /\ matchWindow # 0 => TablesBuiltWith(outParams)
        /\ Len(steps) >= Max(n, m)

\* A general-path return whose tables hold a surcharged Match and a gap run
\* of the full length
C16_Witness ==
    /\ Returned /\ matchWindow \in 1..5
    /\ \E c \in DiagCells : cache[<<c[1] - 1, c[2] - 1>>] > outParams.badMatchCutoff
    /\ \E c \in DOMAIN gapA :
          c[1] >= 1 /\ c[2] >= 1 /\ gapA[c] = outParams.maxConsecutiveGaps

(***************************************************************************)
(* The cost cache                                                          *)
(***************************************************************************)
\* C17: within one run of buildAlignmentDP the combined cost of a pair,
\* and with it the pixel primitive, is evaluated at most once, the DP fill
\* and the backtrace counted together.
C17_EvaluatedOnce ==
    \A k \in DOMAIN calls : calls[k] <= 1

\* A finished general-path run that evaluated every pair of a 2x2 or larger
\* comparison and whose backtrace emitted a Match step
C17_Witness ==
    /\ Returned /\ matchWindow \in 1..5
    /\ n >= 2 /\ m >= 2
    /\ DOMAIN calls = (0..(n - 1)) \X (0..(m - 1))
    /\ \E k \in 1..Len(steps) : steps[k].type = "match"

(***************************************************************************)
(* Two pages against two pages, with page texts                            *)
(***************************************************************************)
\* page texts tried: none, and one of more than 20 characters
DocTexts == {EmptyText, LongText}

\* pixel costs tried: no mismatched pixel, every pixel mismatched
DocPixelCosts == {0, Scale}

InitDocs ==
    /\ InitRun
    /\ InitNoText
    /\ InitDirect
    /\ matchWindow \in 0..5
    /\ scanned \in BOOLEAN
    /\ textsA \in [1..2 -> DocTexts]
    /\ textsB \in [1..2 -> DocTexts]
    /\ pixel \in [(0..1) \X (0..1) -> DocPixelCosts]

SpecDocs == InitDocs /\ [][NextAlign]_vars

MatchSteps == {steps[k] : k \in {k \in 1..Len(steps) : steps[k].type = "match"}}

\* C18: every Match step carries the raw combinedCost of its pair, without
\* the badMatchPenalty surcharge, so its cost lies in [0,1] at every
\* tolerance; and a Match cost of exactly 0 occurs only for a pair with no
\* mismatched pixel.
C18_RawMatchCost ==
    Returned =>
        \A s \in MatchSteps :
            /\ s.cost = combinedCost(s.aIndex, s.bIndex)
            /\ s.cost \in 0..Scale
            /\ s.cost = 0 => pixel[<<s.aIndex, s.bIndex>>] = 0

\* A general-path script, outside scanned mode, with a Match step whose raw
\* cost is above the cutoff, so that the tables hold it surcharged
C18_Witness ==
    /\ Returned /\ matchWindow \in 1..5 /\ ~scanned
    /\ \E s \in MatchSteps :
          /\ s.cost > params.badMatchCutoff
          /\ dp[<<s.aIndex + 1, s.bIndex + 1>>]
                = dp[<<s.aIndex, s.bIndex>>] + s.cost + params.badMatchPenalty

(***************************************************************************)
(* Tie-breaking of the DP fill                                             *)
(***************************************************************************)
InteriorCells == {c \in DOMAIN back : c[1] >= 1 /\ c[2] >= 1}

\* the three candidates of an interior cell, read off the finished tables
DiagOf(c) == dp[<<c[1] - 1, c[2] - 1>>] + Surcharged(cache[<<c[1] - 1, c[2] - 1>>])

UpOf(c) == IF gapA[<<c[1] - 1, c[2]>>] < params.maxConsecutiveGaps
           THEN dp[<<c[1] - 1, c[2]>>] + params.gapPenalty ELSE Infinity

LeftOf(c) == IF gapB[<<c[1], c[2] - 1>>] < params.maxConsecutiveGaps
             THEN dp[<<c[1], c[2] - 1>>] + params.gapPenalty ELSE Infinity

\* C20: in the DP fill the diagonal is recorded whenever its candidate
\* equals the smaller of the up and left candidates, and the up move is
\* recorded whenever up and left tie below the diagonal (diagonal before
\* up before left).
C20_TieBreaking ==
    pc \in {"filled", "done"} =>
        \A c \in InteriorCells :
            /\ DiagOf(c) = Min(UpOf(c), LeftOf(c)) => back[c] = 0
            /\ (UpOf(c) = LeftOf(c) /\ UpOf(c) < DiagOf(c)) => back[c] = 1

\* Finished tables with a cell where the diagonal ties with a legal up move
\* and a cell where legal up and left moves tie below the diagonal
C20_Witness ==
    /\ pc = "filled" /\ matchWindow \in 1..5
    /\ \E c \in InteriorCells :
          DiagOf(c) = UpOf(c) /\ UpOf(c) < Infinity /\ back[c] = 0
    /\ \E c \in InteriorCells :
          UpOf(c) = LeftOf(c) /\ UpOf(c) < DiagOf(c) /\ back[c] = 1

(***************************************************************************)
(* The page: compare() and runCompare.  A run suspends at each await; the  *)
(* code between two awaits is one action.  buildAlignmentDP has no await,  *)
(* so from its call to its return no other run takes a step: the tables,   *)
(* the cache and the other variables of the alignment are those of the one *)
(* call in progress.  The pixel primitive of the render loop                *)
(* (diffOnlyCanvas) is taken not to throw.                                 *)
(***************************************************************************)
RunIds == DOMAIN runs

\* every run may start; otherwise session names the one run that may
Together == 0

NoOutcome == [status |-> "none", steps |-> <<>>, params |-> NoParams, calls |-> <<>>]

\* a run that has not started, on the given inputs
IdleRun(mw, sc, ta, tb, px, th) ==
    [stage |-> "idle", matchWindow |-> mw, scanned |-> sc, textsA |-> ta,
     textsB |-> tb, pixel |-> px, throwAt |-> th, out |-> NoOutcome]

\* "results.innerHTML = ...": the text replaces whatever the container held
WithText(txt) == [text |-> txt, blocks |-> <<>>]

\* compare() of run q was called and has not ended
InProgress(q) == runs[q].stage \notin {"idle", "shown", "failed"}

\* compare() and runCompare up to the await on loadPdf
Compare(r) ==
    /\ active = NoRun
    /\ session \in {Together, r}
    /\ runs[r].stage = "idle"
    /\ runs' = [runs EXCEPT ![r].stage = "loading"]
    /\ results' = WithText("Loading PDFs")
    /\ overlapped' = (overlapped \/ \E q \in RunIds \ {r} : InProgress(q))
    /\ UNCHANGED <<alignVars, textVars, pixVars, active, lastResults, session, alone, dlVars>>

\* from the PDFs being loaded to the next await: on text extraction, or in
\* scanned mode on page rendering
Loaded(r) ==
    /\ active = NoRun
    /\ runs[r].stage = "loading"
    /\ IF runs[r].scanned
       THEN /\ runs' = [runs EXCEPT ![r].stage = "rendering"]
            /\ results' = WithText("Rendering pages")
       ELSE /\ runs' = [runs EXCEPT ![r].stage = "extracting"]
            /\ results' = WithText("Extracting text")
    /\ UNCHANGED <<alignVars, textVars, pixVars, active, lastResults, session, alone,
                   overlapped, dlVars>>

\* from the texts being extracted to the await on page rendering
Extracted(r) ==
    /\ active = NoRun
    /\ runs[r].stage = "extracting"
    /\ runs' = [runs EXCEPT ![r].stage = "rendering"]
    /\ results' = WithText("Rendering pages")
    /\ UNCHANGED <<alignVars, textVars, pixVars, active, lastResults, session, alone,
                   overlapped, dlVars>>

\* from the pages being rendered to the call of buildAlignmentDP: the
\* container is emptied and the call starts on the run's own arguments; in
\* scanned mode the texts passed are empty strings
Rendered(r) ==
    /\ active = NoRun
    /\ runs[r].stage = "rendering"
    /\ runs' = [runs EXCEPT ![r].stage = "aligning"]
    /\ results' = EmptyResults
    /\ active' = r
    /\ pc' = "start"
    /\ matchWindow' = runs[r].matchWindow
    /\ scanned' = runs[r].scanned
    /\ textsA' = IF runs[r].scanned
                 THEN [k \in 1..Len(runs[r].textsA) |-> EmptyText]
                 ELSE runs[r].textsA
    /\ textsB' = IF runs[r].scanned
                 THEN [k \in 1..Len(runs[r].textsB) |-> EmptyText]
                 ELSE runs[r].textsB
    /\ pixel' = runs[r].pixel
    /\ throwAt' = runs[r].throwAt
    /\ calls' = <<>>
    /\ steps' = <<>>
    /\ outParams' = NoParams
    /\ UNCHANGED <<dp, back, gapA, gapB, cache, textVars, pixVars, lastResults, session,
                   alone, overlapped, dlVars>>

\* buildAlignmentDP returns or throws: its promise is settled and the run
\* waits to be resumed
Settled(r) ==
    /\ active = r
    /\ pc \in {"done", "failed"}
    /\ runs' = [runs EXCEPT
                   ![r].stage = IF pc = "done" THEN "aligned" ELSE "rejected",
                   ![r].out = [status |-> IF pc = "done" THEN "returned" ELSE "threw",
                               steps |-> steps, params |-> outParams,
                               calls |-> calls]]
    /\ active' = NoRun
    /\ pc' = "idle"
    /\ UNCHANGED <<inputVars, dp, back, gapA, gapB, cache, calls, steps, outParams,
                   textVars, pixVars, results, lastResults, session, alone,
                   overlapped, dlVars>>

\* the block appended to the container for one step of run r
Block(r, s) == [run |-> r, step |-> Shape(s)]

\* runCompare resumed with the value of buildAlignmentDP: lastResults is
\* assigned, one block per step is appended to the container and the
\* download button is enabled
Show(r) ==
    /\ active = NoRun
    /\ runs[r].stage = "aligned"
    /\ runs' = [runs EXCEPT ![r].stage = "shown"]
    /\ lastResults' = [run |-> r, steps |-> runs[r].out.steps]
    /\ results' = [results EXCEPT
                      !.blocks = @ \o [k \in 1..Len(runs[r].out.steps) |->
                                         Block(r, runs[r].out.steps[k])]]
    /\ dlDisabled' = FALSE
    /\ UNCHANGED <<alignVars, textVars, pixVars, active, session, alone, overlapped,
                   downloads, pdfs>>

FailClearsLastResults(r) ==
    /\ active = NoRun
    /\ runs[r].stage = "rejected"
    /\ runs' = [runs EXCEPT ![r].stage = "failed"]
    /\ lastResults' = NoLastResults
    /\ UNCHANGED <<alignVars, textVars, pixVars, active, results, session, alone,
                   overlapped, dlVars>>

\* runCompare resumed with the exception of buildAlignmentDP: it leaves
\* runCompare and is caught, logged and reported by compare()
Fail(r) ==
    /\ active = NoRun
    /\ runs[r].stage = "rejected"
    /\ runs' = [runs EXCEPT ![r].stage = "failed"]
    /\ UNCHANGED <<alignVars, textVars, pixVars, active, results, lastResults, session, alone,
                   overlapped,
                   dlVars>>

NextPage ==
    \/ \E r \in RunIds : Compare(r)
    \/ \E r \in RunIds : Loaded(r)
    \/ \E r \in RunIds : Extracted(r)
    \/ \E r \in RunIds : Rendered(r)
    \/ FastPath
    \/ Seed
    \/ Fill
    \/ Backtrace
    \/ \E r \in RunIds : Settled(r)
    \/ \E r \in RunIds : Show(r)
    \/ \E r \in RunIds : Fail(r)

\* the page as loaded: no call of buildAlignmentDP in progress
InitPage ==
    /\ pc = "idle"
    /\ matchWindow = 0 /\ scanned = FALSE
    /\ textsA = <<>> /\ textsB = <<>> /\ pixel = <<>> /\ throwAt = NoThrow
    /\ dp = NoTable /\ back = NoTable /\ gapA = NoTable /\ gapB = NoTable
    /\ cache = <<>> /\ calls = <<>> /\ steps = <<>> /\ outParams = NoParams
    /\ InitNoText
    /\ InitNoPixel
    /\ dlDisabled = TRUE /\ pdfs = 0 /\ overlapped = FALSE
    /\ active = NoRun /\ results = EmptyResults /\ lastResults = NoLastResults

(***************************************************************************)
(* One run on a page whose pixel primitive may throw                       *)
(***************************************************************************)
MaxThrowPages == 2

InitThrow ==
    /\ InitPage
    /\ downloads = <<>>
    /\ session = Together
    /\ alone = <<>>
    /\ \E na \in 1..MaxThrowPages, nb \in 1..MaxThrowPages, p \in DocPixelCosts,
          mw \in 0..5, sc \in BOOLEAN :
          \E th \in {NoThrow} \cup ((0..(na - 1)) \X (0..(nb - 1))) :
             runs = (1 :> IdleRun(mw, sc, [k \in 1..na |-> EmptyText],
                                  [k \in 1..nb |-> EmptyText],
                                  [c \in (0..(na - 1)) \X (0..(nb - 1)) |-> p], th))

SpecThrow == InitThrow /\ [][NextPage]_vars

\* the pair k is evaluated before the pair th by both loops
EvaluatedBefore(k, th) == k[1] < th[1] \/ (k[1] = th[1] /\ k[2] < th[2])

\* the evaluations c stop at the throwing pair th: th and the pairs before
\* it were evaluated once, no other pair was
StoppedAt(c, th) ==
    /\ th \in DOMAIN c
    /\ \A k \in DOMAIN c : c[k] = 1 /\ (k = th \/ EvaluatedBefore(k, th))

\* C15: when the pixel primitive throws for a pair during buildAlignmentDP,
\* on either path, the exception reaches the caller, the primitive is not
\* invoked again for that pair or for a later one, and no EditScript, not
\* even a partial one, is returned or rendered.
C15_FailurePropagates ==
    /\ pc = "failed" =>
          steps = <<>> /\ outParams = NoParams /\ StoppedAt(calls, throwAt)
    /\ \A r \in RunIds :
          LET o == runs[r].out
          IN  /\ runs[r].throwAt \in DOMAIN o.calls => o.status = "threw"
              /\ o.status = "threw" =>
                    /\ runs[r].stage \in {"rejected", "failed"}
                    /\ o.steps = <<>> /\ o.params = NoParams
                    /\ StoppedAt(o.calls, runs[r].throwAt)
                    /\ lastResults.run # r
                    /\ \A k \in 1..Len(results.blocks) : results.blocks[k].run # r

\* A run of the general path on 2x2 pages whose primitive threw on the
\* third pair, after compare() has caught the exception
C15_Witness ==
    /\ runs[1].stage = "failed"
    /\ runs[1].matchWindow \in 1..5
    /\ runs[1].throwAt = <<1, 0>>
    /\ DOMAIN runs[1].out.calls = {<<0, 0>>, <<0, 1>>, <<1, 0>>}
    /\ results = EmptyResults

(***************************************************************************)
(* Two runs on one page.  The behaviour goes through three page loads:     *)
(* in the first only run 1 is started, in the second only run 2, and in    *)
(* the third both are, in any interleaving.  alone keeps what each run     *)
(* got from buildAlignmentDP in the page load it had to itself.            *)
(***************************************************************************)
\* slider values tried for the two runs
OverlapWindows == {0, 1, 5}

\* inputs of a run: one or two pages of A against one page of B, every
\* pair at the same pixel cost, the primitive throwing on the first pair or
\* not at all
OverlapRuns ==
    {IdleRun(mw, sc, [k \in 1..na |-> EmptyText], <<EmptyText>>,
             [c \in (0..(na - 1)) \X {0} |-> p], th) :
        mw \in OverlapWindows, sc \in BOOLEAN, na \in 1..2, p \in DocPixelCosts,
        th \in {NoThrow, <<0, 0>>}}

InitOverlap ==
    /\ InitPage
    /\ downloads = <<>>
    /\ session = 1
    /\ alone = <<>>
    /\ runs \in [1..2 -> OverlapRuns]

\* the page is loaded anew once the run that had it to itself is over:
\* every variable of the script starts over, the outcome of the run is kept
Reload ==
    /\ session \in RunIds
    /\ active = NoRun
    /\ runs[session].stage \in {"shown", "failed"}
    /\ alone' = (session :> runs[session].out) @@ alone
    /\ session' = IF session + 1 \in RunIds THEN session + 1 ELSE Together
    /\ runs' = [r \in RunIds |-> [runs[r] EXCEPT !.stage = "idle", !.out = NoOutcome]]
    /\ pc' = "idle"
    /\ matchWindow' = 0 /\ scanned' = FALSE
    /\ textsA' = <<>> /\ textsB' = <<>> /\ pixel' = <<>> /\ throwAt' = NoThrow
    /\ dp' = NoTable /\ back' = NoTable /\ gapA' = NoTable /\ gapB' = NoTable
    /\ cache' = <<>> /\ calls' = <<>> /\ steps' = <<>> /\ outParams' = NoParams
    /\ results' = EmptyResults /\ lastResults' = NoLastResults
    /\ dlDisabled' = TRUE /\ pdfs' = 0 /\ overlapped' = FALSE
    /\ downloads' = [d \in DOMAIN downloads |-> IdleDownload]
    /\ UNCHANGED <<textVars, pixVars, active>>

NextOverlap == NextPage \/ Reload

SpecOverlap == InitOverlap /\ [][NextOverlap]_vars

\* C19: when two runs overlap, the tables and the cost cache a call of
\* buildAlignmentDP works on are its own (sized for its documents, holding
\* only costs it evaluated itself), and each run gets the EditScript it got
\* when it ran alone.
C19_RunIsolation ==
    session = Together =>
        /\ (matchWindow # 0 /\ pc \in {"seeded", "filled", "done"}) =>
              /\ DOMAIN dp = Cells
              /\ DOMAIN gapA = Cells /\ DOMAIN gapB = Cells
              /\ \A k \in DOMAIN cache :
                    k \in DOMAIN calls /\ cache[k] = combinedCost(k[1], k[2])
        /\ \A r \in RunIds :
              runs[r].out.status # "none" => runs[r].out = alone[r]

\* Both runs suspended at once between the return of buildAlignmentDP and
\* their resumption, after general-path calls on documents of different
\* sizes and costs
C19_Witness ==
    /\ session = Together
    /\ runs[1].stage = "aligned" /\ runs[2].stage = "aligned"
    /\ runs[1].matchWindow = 5 /\ runs[2].matchWindow = 5
    /\ Len(runs[1].textsA) = 2 /\ Len(runs[2].textsA) = 1
    /\ runs[1].pixel[<<0, 0>>] = Scale /\ runs[2].pixel[<<0, 0>>] = 0
    /\ runs[2].out.steps = <<MatchStep(0, 0, 0)>>

(***************************************************************************)
(* The finished tables                                                     *)
(***************************************************************************)
Filled == pc \in {"filled", "done"}

\* the diagonal candidate of an interior cell: the raw cost of the pair,
\* plus badMatchPenalty exactly when it is above badMatchCutoff
DiagCandidate(c) ==
    LET raw == cache[<<c[1] - 1, c[2] - 1>>]
    IN  dp[<<c[1] - 1, c[2] - 1>>] + raw
          + (IF raw > params.badMatchCutoff THEN params.badMatchPenalty ELSE 0)

\* the candidate of the move recorded at an interior cell
RecordedCandidate(c) ==
    IF back[c] = 0 THEN DiagCandidate(c)
    ELSE IF back[c] = 1 THEN UpOf(c)
    ELSE LeftOf(c)

BackOf(c) ==
    IF back[c] = 0 THEN <<c[1] - 1, c[2] - 1>>
    ELSE IF back[c] = 1 THEN <<c[1] - 1, c[2]>>
    ELSE <<c[1], c[2] - 1>>

\* the cells the backtrace loop visits from cell c on, c first; the loop
\* ends where neither index is positive, and the list ends at a cell
\* outside the tables if the loop were to reach one
RECURSIVE BackCells(_)
BackCells(c) ==
    IF c \notin Cells \/ ~(c[1] > 0 \/ c[2] > 0) THEN <<c>>
    ELSE <<c>> \o BackCells(BackOf(c))

\* C22: for tolerance 1..5 and any n, m >= 0 the backtrace from (n, m)
\* ends at (0, 0) after exactly n + m - k moves, k the number of Match
\* steps, emits one step per move, and reads no cell with a negative index.
C22_BacktraceTerminates ==
    (Returned /\ matchWindow \in 1..5) =>
        LET path == BackCells(<<n, m>>)
            k == Cardinality(MatchSteps)
        IN  /\ \A q \in 1..Len(path) : path[q][1] >= 0 /\ path[q][2] >= 0
            /\ path[Len(path)] = <<0, 0>>
            /\ Len(path) - 1 = n + m - k
            /\ Len(steps) = Len(path) - 1

\* A backtrace of four moves over 3x2 pages that runs along column 0
C22_Witness ==
    /\ Returned /\ matchWindow \in 1..5
    /\ n = 3 /\ m = 2
    /\ Len(steps) = 4
    /\ \E q \in 1..Len(BackCells(<<n, m>>)) : BackCells(<<n, m>>)[q] = <<1, 0>>

\* number of consecutive up moves with which the back-pointer path from
\* (0, 0) ends at cell c
RECURSIVE UpRun(_)
UpRun(c) ==
    IF c = <<0, 0>> \/ back[c] # 1 THEN 0 ELSE 1 + UpRun(<<c[1] - 1, c[2]>>)

\* number of consecutive left moves with which it ends at cell c
RECURSIVE LeftRun(_)
LeftRun(c) ==
    IF c = <<0, 0>> \/ back[c] # 2 THEN 0 ELSE 1 + LeftRun(<<c[1], c[2] - 1>>)

\* C23: after the fill, gapA of every cell is the number of consecutive up
\* moves with which the back-pointer path from (0,0) ends at the cell and
\* gapB the number of consecutive left moves; both are 0 at a cell reached
\* by a diagonal move, and at most one of them is non-zero.
C23_GapRunCounters ==
    Filled =>
        \A c \in DOMAIN back :
            /\ gapA[c] = UpRun(c)
            /\ gapB[c] = LeftRun(c)
            /\ (c \in InteriorCells /\ back[c] = 0) => (gapA[c] = 0 /\ gapB[c] = 0)
            /\ gapA[c] = 0 \/ gapB[c] = 0

\* Finished tables with an interior run of two up moves, an interior left
\* move and an interior diagonal move
C23_Witness ==
    /\ pc = "filled" /\ matchWindow \in 2..5
    /\ \E c \in InteriorCells : gapA[c] = 2
    /\ \E c \in InteriorCells : gapB[c] = 1
    /\ \E c \in InteriorCells : back[c] = 0

(***************************************************************************)
(* pagePixelCost on its own: two page canvases of any sizes.  The pixel    *)
(* primitive may report any number of mismatched pixels of the buffers it  *)
(* is given.                                                               *)
(***************************************************************************)
\* cropVerticalBand(canvas, 0.12, 0.12): the full width, and the height
\* less the top and bottom 12 per cent, at least 1
cropVerticalBand(canvas) ==
    Canvas(canvas.width, Max(1, (canvas.height * 76) \div 100))

cropToCommonSizeOfA(cA, cB) ==
    [a |-> Canvas(cA.width, cA.height), b |-> Canvas(cA.width, cA.height),
     width |-> cA.width, height |-> cA.height]

cropToCommonSize(cA, cB) ==
    LET width == Min(cA.width, cB.width)
        height == Min(cA.height, cB.height)
    IN  [a |-> Canvas(width, height), b |-> Canvas(width, height),
         width |-> width, height |-> height]

\* length of getImageData(0, 0, width, height).data: four bytes per pixel
ImageDataLen(width, height) == 4 * width * height

\* canvas sizes tried
PixelWidths == {1, 2, 4}

PixelHeights == {1, 2, 5}

InitPixel ==
    /\ InitRun
    /\ InitNoText
    /\ InitNoDownload
    /\ runs = <<>> /\ active = NoRun /\ results = EmptyResults
    /\ lastResults = NoLastResults /\ session = 0 /\ alone = <<>>
    /\ overlapped = FALSE
    /\ throwAt = NoThrow
    /\ matchWindow = 0 /\ scanned = TRUE
    /\ textsA = <<>> /\ textsB = <<>> /\ pixel = <<>>
    /\ imgA \in {Canvas(w, h) : w \in PixelWidths, h \in PixelHeights}
    /\ imgB \in {Canvas(w, h) : w \in PixelWidths, h \in PixelHeights}
    /\ pmCall = NoCall
    /\ pxCost = NoResult

\* pagePixelCost(imgA, imgB, threshold, includeAA)
CallPagePixelCost ==
    /\ pxCost = NoResult
    /\ LET c == cropToCommonSize(cropVerticalBand(imgA), cropVerticalBand(imgB))
       IN  \E diffCount \in 0..(c.width * c.height) :
              /\ pmCall' = [called |-> TRUE, width |-> c.width, height |-> c.height,
                            aLen |-> ImageDataLen(c.width, c.height),
                            bLen |-> ImageDataLen(c.width, c.height),
                            outLen |-> c.width * c.height * 4,
                            diffCount |-> diffCount]
              /\ pxCost' = (diffCount * Scale) \div (c.width * c.height)
    /\ UNCHANGED <<alignVars, textVars, pageVars, imgA, imgB>>

NextPixel == CallPagePixelCost

SpecPixel == InitPixel /\ [][NextPixel]_vars

\* height of the content band of a page of height h
BandHeight(h) == Max(1, (76 * h) \div 100)

\* C24: for two page images of any sizes the pixel primitive is invoked on
\* two buffers of the same dimensions, the smaller width and the smaller
\* band height of the two content bands; the result
\* mismatchCount / (width * height) lies in [0,1] and is 0 when the
\* primitive reports no mismatched pixel.
C24_PixelCost ==
    pmCall.called =>
        /\ pmCall.width = Min(imgA.width, imgB.width)
        /\ pmCall.height = Min(BandHeight(imgA.height), BandHeight(imgB.height))
        /\ pmCall.aLen = 4 * pmCall.width * pmCall.height
        /\ pmCall.bLen = pmCall.aLen /\ pmCall.outLen = pmCall.aLen
        /\ pxCost \in 0..Scale
        /\ pxCost * pmCall.width * pmCall.height = pmCall.diffCount * Scale
        /\ pmCall.diffCount = 0 => pxCost = 0

\* A call on a wide short page against a narrow tall one, with some of the
\* pixels of the common band mismatched
C24_Witness ==
    /\ pmCall.called
    /\ imgA = Canvas(4, 2) /\ imgB = Canvas(2, 5)
    /\ pmCall.width = 2 /\ pmCall.height = 1
    /\ pmCall.diffCount = 1
    /\ pxCost = Scale \div 2

(***************************************************************************)
(* Gap runs after the start of the script                                  *)
(***************************************************************************)
\* number of consecutive steps of the type of steps[q] that end at q
RECURSIVE SameTypeEndingAt(_)
SameTypeEndingAt(q) ==
    IF q = 1 \/ steps[q - 1].type # steps[q].type THEN 1
    ELSE 1 + SameTypeEndingAt(q - 1)

\* some step before position q is of another type than steps[q]
AfterOtherStep(q) == \E k \in 1..(q - 1) : steps[k].type # steps[q].type

\* C25: for tolerance t in 1..5, a run of DeleteA steps that comes after a
\* Match or InsertB step, and a run of InsertB steps that comes after a
\* Match or DeleteA step, is at most t long; only the run that begins the
\* script is not limited by t.
C25_NonLeadingGapRuns ==
    (Returned /\ matchWindow \in 1..5) =>
        \A q \in 1..Len(steps) :
            (steps[q].type \in GapTypes /\ AfterOtherStep(q)) =>
                SameTypeEndingAt(q) <= tolerance

\* A script that begins with more than t InsertB steps and goes on with a
\* run of exactly t DeleteA steps
C25_Witness ==
    /\ Returned /\ matchWindow \in 1..5
    /\ Len(steps) > 2 * tolerance
    /\ \A q \in 1..(tolerance + 1) : steps[q].type = "insertB"
    /\ \E q \in 1..Len(steps) :
          /\ steps[q].type = "deleteA"
          /\ SameTypeEndingAt(q) = tolerance
          /\ (q = Len(steps) \/ steps[q + 1].type # "deleteA")

(***************************************************************************)
(* The tables against the script                                           *)
(***************************************************************************)
\* what a Match of raw cost c adds to a path
MatchCharge(c) ==
    c + (IF c > params.badMatchCutoff THEN params.badMatchPenalty ELSE 0)

\* cost of the back-pointer path from (0, 0) to cell c
RECURSIVE PathCost(_)
PathCost(c) ==
    IF c = <<0, 0>> THEN 0
    ELSE (IF back[c] = 0 THEN MatchCharge(cache[<<c[1] - 1, c[2] - 1>>])
          ELSE params.gapPenalty) + PathCost(BackOf(c))

\* total cost of a script, from the costs its Match steps carry
RECURSIVE ScriptCost(_)
ScriptCost(ss) ==
    IF ss = <<>> THEN 0
    ELSE (IF Head(ss).type = "match" THEN MatchCharge(Head(ss).cost)
          ELSE params.gapPenalty) + ScriptCost(Tail(ss))

DiagonalExits ==
    LET path == BackCells(<<n, m>>)
    IN  {path[k] : k \in {q \in 1..Len(path) :
                            path[q] # <<0, 0>> /\ back[path[q]] = 0}}

\* "cache.get(key(i - 1, j - 1)) ?? 1" takes its right-hand side
FallbackTaken ==
    \E c \in DiagonalExits : <<c[1] - 1, c[2] - 1>> \notin DOMAIN cache

\* C30: for tolerance 1..5 the fallback of the backtrace is never taken: a
\* diagonal move is recorded only at cells with i, j >= 1, row 0 carries
\* only left moves and column 0 only up moves, and the cache holds the pair
\* (i-1, j-1) of every cell the backtrace leaves by a diagonal move.
C30_FallbackNeverTaken ==
    (Filled /\ matchWindow \in 1..5) =>
        /\ \A c \in DOMAIN back \ {<<0, 0>>} :
              /\ back[c] = 0 => (c[1] >= 1 /\ c[2] >= 1)
              /\ c[1] = 0 => back[c] = 2
              /\ c[2] = 0 => back[c] = 1
        /\ ~FallbackTaken
        /\ Returned =>
              \A s \in MatchSteps : s.cost = cache[<<s.aIndex, s.bIndex>>]

\* A returned script whose backtrace left cells diagonally and also walked
\* along row 0 or column 0
C30_Witness ==
    /\ Returned /\ matchWindow \in 1..5
    /\ DiagonalExits # {}
    /\ \E c \in DiagonalExits : cache[<<c[1] - 1, c[2] - 1>>] # Scale
    /\ \E k \in 1..Len(BackCells(<<n, m>>)) :
          LET c == BackCells(<<n, m>>)[k]
          IN  c # <<0, 0>> /\ (c[1] = 0 \/ c[2] = 0)

(***************************************************************************)
(* A page session: compare() and downloadComparison() calls in any order   *)
(* and interleaving, any await of runCompare may end in an exception       *)
(***************************************************************************)
\* runCompare resumed with an exception of loadPdf, extractPdfPageTexts or
\* renderPdfToCanvases: it leaves runCompare and is caught, logged and
\* reported by compare()
StageFails(r) ==
    /\ active = NoRun
    /\ runs[r].stage \in {"loading", "extracting", "rendering"}
    /\ runs' = [runs EXCEPT ![r].stage = "failed"]
    /\ UNCHANGED <<alignVars, textVars, pixVars, active, results, lastResults, session,
                   alone, overlapped, dlVars>>

DownloadUnchecked(d) ==
    /\ active = NoRun
    /\ downloads[d].stage = "idle"
    /\ \E built \in BOOLEAN :
          IF built /\ lastResults # NoLastResults
          THEN /\ downloads' = [downloads EXCEPT ![d].stage = "saving"]
               /\ dlDisabled' = TRUE
          ELSE /\ downloads' = [downloads EXCEPT ![d].stage = "failed"]
               /\ dlDisabled' = FALSE
    /\ UNCHANGED <<alignVars, textVars, pixVars, runs, active, results, lastResults,
                   session, alone, overlapped, pdfs>>

\* downloadComparison() up to its end or to the await on html2pdf: refused
\* when lastResults is null; otherwise the button is disabled and the
\* report is built, and an exception while building it is caught
Download(d) ==
    /\ active = NoRun
    /\ downloads[d].stage = "idle"
    /\ IF lastResults = NoLastResults
       THEN /\ downloads' = [downloads EXCEPT ![d].stage = "refused"]
            /\ UNCHANGED dlDisabled
       ELSE \E built \in BOOLEAN :
               IF built
               THEN /\ downloads' = [downloads EXCEPT ![d].stage = "saving"]
                    /\ dlDisabled' = TRUE
               ELSE /\ downloads' = [downloads EXCEPT ![d].stage = "failed"]
                    /\ dlDisabled' = FALSE
    /\ UNCHANGED <<alignVars, textVars, pixVars, runs, active, results, lastResults,
                   session, alone, overlapped, pdfs>>

\* downloadComparison() resumed by html2pdf: with the file saved, or with
\* an exception that is caught; the button is enabled either way
DownloadEnds(d) ==
    /\ active = NoRun
    /\ downloads[d].stage = "saving"
    /\ \E saved \in BOOLEAN :
          /\ downloads' = [downloads EXCEPT
                              ![d].stage = IF saved THEN "saved" ELSE "failed"]
          /\ pdfs' = IF saved THEN pdfs + 1 ELSE pdfs
    /\ dlDisabled' = FALSE
    /\ UNCHANGED <<alignVars, textVars, pixVars, runs, active, results, lastResults,
                   session, alone, overlapped>>

\* the runs of a session: one or two pages against one page
SessionRuns ==
    {IdleRun(mw, sc, [k \in 1..na |-> EmptyText], <<EmptyText>>,
             [c \in (0..(na - 1)) \X {0} |-> 0], th) :
        mw \in {0, 5}, sc \in BOOLEAN, na \in 1..2, th \in {NoThrow, <<0, 0>>}}

InitSession ==
    /\ InitPage
    /\ session = Together
    /\ alone = <<>>
    /\ runs \in [1..2 -> SessionRuns]
    /\ downloads = [d \in 1..2 |-> IdleDownload]

NextSession ==
    \/ NextPage
    \/ \E r \in RunIds : StageFails(r)
    \/ \E d \in DOMAIN downloads : Download(d)
    \/ \E d \in DOMAIN downloads : DownloadEnds(d)

SpecSession == InitSession /\ [][NextSession]_vars

\* run r is resumed with the value of buildAlignmentDP in this step
Resumed(r) == runs[r].stage = "aligned" /\ runs'[r].stage = "shown"

\* the compare() of run r ends in its catch clause in this step
Caught(r) == runs[r].stage # "failed" /\ runs'[r].stage = "failed"

\* lastResults is null until a run got its alignment, and then it is what
\* one run stored: the steps that run was returned, under that run's name
LastResultsOfOneRun ==
    IF \A r \in RunIds : runs[r].stage # "shown"
    THEN lastResults = NoLastResults
    ELSE /\ lastResults.run \in RunIds
         /\ runs[lastResults.run].stage = "shown"
         /\ runs[lastResults.run].out.status = "returned"
         /\ lastResults.steps = runs[lastResults.run].out.steps

\* a failing compare() leaves lastResults alone, a run that gets its
\* alignment stores its own, and nothing else assigns lastResults
LastResultsStep ==
    /\ \A r \in RunIds : Caught(r) => lastResults' = lastResults
    /\ \A r \in RunIds :
          Resumed(r) => lastResults' = [run |-> r, steps |-> runs[r].out.steps]
    /\ lastResults' # lastResults => \E r \in RunIds : Resumed(r)

BlocksOfLastResults ==
    [k \in 1..Len(lastResults.steps) |-> Block(lastResults.run, lastResults.steps[k])]

\* every compare() called on the page has ended
AllEnded == \A r \in RunIds : runs[r].stage \in {"shown", "failed"}

\* C28: for any interleaving of two overlapping compare() calls at their
\* await points, once both have ended the blocks in the results container
\* are exactly the blocks of the steps in lastResults, in script order, with
\* no block left over from the other run.
C28_ContainerShowsLastResults ==
    (overlapped /\ AllEnded) => results.blocks = BlocksOfLastResults

\* downloadComparison() d is called in this step
Called(d) == downloads[d].stage = "idle" /\ downloads'[d].stage # "idle"

\* downloadComparison() d ends in this step after it got past the null
\* check, with the file saved or in its catch clause
EndsPastCheck(d) ==
    /\ downloads[d].stage \in {"idle", "saving"}
    /\ downloads'[d].stage \in {"saved", "failed"}

\* the button is enabled only while lastResults holds a comparison
EnabledOnlyWithResults == ~dlDisabled => lastResults # NoLastResults

\* a call on a null lastResults is refused: no file, button as before; a
\* call that got past the check leaves the button enabled at its end; a
\* file is saved only by a call on a non-null lastResults
DownloadStep ==
    \A d \in DOMAIN downloads :
        /\ (Called(d) /\ lastResults = NoLastResults) =>
              /\ downloads'[d].stage = "refused"
              /\ pdfs' = pdfs /\ dlDisabled' = dlDisabled
        /\ (Called(d) /\ downloads'[d].stage = "refused") =>
              lastResults = NoLastResults
        /\ EndsPastCheck(d) => ~dlDisabled'
        /\ (Called(d) /\ lastResults # NoLastResults) =>
              downloads'[d].stage \in {"saving", "failed"}

\* C29: with the download button disabled at the start, after any sequence
\* of compare() and downloadComparison() calls the button is enabled only
\* if lastResults holds a completed comparison; downloadComparison() on a
\* null lastResults produces no PDF and leaves the button as it was; every
\* downloadComparison() that got past the null check leaves the button
\* enabled when it ends, whether the export succeeded or threw.
C29_DownloadGating ==
    []EnabledOnlyWithResults /\ [][DownloadStep]_vars

\* One call was refused before any comparison had completed, and a later
\* one saved its file and left the button enabled
C29_Witness ==
    \E d, e \in DOMAIN downloads :
        /\ downloads[d].stage = "refused"
        /\ downloads[e].stage = "saved"
        /\ pdfs = 1 /\ ~dlDisabled /\ lastResults # NoLastResults

====
